---- MODULE Spec2Model ----
(***************************************************************************)
(* PriorityFeeSubscriberMap (sdk/src/priority_fee/                         *)
(* priority_fee_subscriber_map.rs): a mutex-guarded cache of priority fee  *)
(* levels, a watch list of markets, and the subscribe / load / background  *)
(* polling life cycle, as a state machine.                                 *)
(*                                                                         *)
(* Every `.await` of the source is a point where other tasks run, so each  *)
(* action below is the code between two awaits.  The tokio Mutex is the    *)
(* variable `lock`; a guard that is taken and dropped without an await in  *)
(* between is one atomic step guarded by lock = "free".                    *)
(***************************************************************************)
EXTENDS Integers, Sequences, FiniteSets, TLC

VARIABLES
    frequency_ms,   \* field frequency_ms
    interval_id,    \* field interval_id: Option<Interval>
    drift_markets,  \* field drift_markets: Option<Vec<DriftMarketInfo>>
    fees_map,       \* field fees_map: market_type -> (market_index -> levels)
    lock,           \* the tokio Mutex around the object: "free" or its holder
    pc,             \* position of every caller and every spawned task
    op,             \* the public method a caller is inside ("none" when idle)
    fetchReq,       \* arguments of the fetch in flight (Option)
    nsub,           \* number of subscribe calls issued so far
    last,           \* the last completed method call, with its arguments and outcome
    prev,           \* the object's fields when the call of `last` began
    subOk,          \* some subscribe call has returned Ok
    subFailed,      \* some subscribe call has returned Err
    seq,            \* per caller: what had returned when its subscribe call began
    loadRes,        \* per caller: outcome of the load inside its subscribe call
    snap,           \* the object's fields when the load holding the lock took it
    initLoads       \* number of loads begun from inside subscribe

vars == <<frequency_ms, interval_id, drift_markets, fees_map, lock, pc, op,
          fetchReq, nsub, last, prev, subOk, subFailed, seq, loadRes, snap,
          initLoads>>

(***************************************************************************)
(* Bounds of the model.                                                    *)
(***************************************************************************)
\* subscribe calls issued in one behaviour (each may spawn one task)
MaxSubscribes == 2
\* longest response handed to update_fees_map in the cache specification
MaxLen == 2

(***************************************************************************)
(* Values.                                                                 *)
(***************************************************************************)
None == <<>>
Some(x) == <<x>>
IsSome(o) == o # None
Unwrap(o) == o[1]

\* the width of DriftMarketInfo.market_index (u16)
U16 == 65536

Callers == {"c1", "c2"}
TaskNames == <<"t1", "t2", "t3", "t4">>
Tasks == {TaskNames[i] : i \in 1..MaxSubscribes}
Procs == Callers \cup Tasks

\* a DriftPriorityFeeLevels record: its market and its fee levels
Level(t, i, l) == [market_type |-> t, market_index |-> i, level |-> l]
\* a DriftMarketInfo record
Market(t, i) == [market_type |-> t, market_index |-> i]

\* the responses the fetcher returns in the life-cycle specification
FetchResponses ==
    { <<Level("perp", 0, 100)>>,
      <<Level("perp", 0, 150)>>,
      <<Level("spot", 65537, 100), Level("other", 0, 100)>> }

\* the entries of the responses of the cache specification
Levels ==
    { Level("perp", 0, 100), Level("perp", 0, 150), Level("spot", 65537, 100),
      Level("spot", 1, 150), Level("other", 0, 100) }
SeqsUpTo(S, n) == UNION { [1..k -> S] : k \in 0..n }
AllResponses == SeqsUpTo(Levels, MaxLen)

MarketTypes == {"perp", "spot", "other"}
MarketIndexes == {0, 1, 65537}

(***************************************************************************)
(* Pure functions of the source.                                           *)
(***************************************************************************)
\* MapInsert that keeps the value already stored under the key
\* (entry(k).or_insert(v) instead of insert(k, v))
MapInsert_keepsFirst(m, k, v) ==
    [x \in (DOMAIN m) \cup {k} |-> IF x \in DOMAIN m THEN m[x] ELSE v]

\* HashMap::insert on an inner map: the entry at key k is replaced
MapInsert(m, k, v) == [x \in (DOMAIN m) \cup {k} |-> IF x = k THEN v ELSE m[x]]

\* InsertFee with the bucket created on demand (entry(..).or_default()
\* instead of get_mut)
InsertFee_anyCategory(fm, fee) ==
    LET bucket == IF fee.market_type \in DOMAIN fm THEN fm[fee.market_type] ELSE <<>>
    IN  [t \in (DOMAIN fm) \cup {fee.market_type} |->
            IF t = fee.market_type THEN MapInsert(bucket, fee.market_index, fee)
            ELSE fm[t]]

\* InsertFee keyed by the size of the bucket instead of the market index
\* (the entry is appended, never overwritten)
InsertFee_appends(fm, fee) ==
    IF fee.market_type \in DOMAIN fm
    THEN [fm EXCEPT ![fee.market_type] = MapInsert(@, Cardinality(DOMAIN @), fee)]
    ELSE fm

\* the closure of update_fees_map (lines 44-48) applied to one entry
InsertFee(fm, fee) ==
    IF fee.market_type \in DOMAIN fm
    THEN [fm EXCEPT ![fee.market_type] = MapInsert(@, fee.market_index, fee)]
    ELSE fm

\* update_fees_map that gives up at the first entry of an unknown category
RECURSIVE UpdateFeesMap_stopsAtUnknown(_, _)
UpdateFeesMap_stopsAtUnknown(fm, res) ==
    IF res = <<>> \/ Head(res).market_type \notin DOMAIN fm THEN fm
    ELSE UpdateFeesMap_stopsAtUnknown(InsertFee(fm, Head(res)), Tail(res))

\* update_fees_map: the closure applied to the entries in response order
RECURSIVE UpdateFeesMap(_, _)
UpdateFeesMap(fm, res) ==
    IF res = <<>> THEN fm
    ELSE UpdateFeesMap(InsertFee(fm, Head(res)), Tail(res))

\* get_priority_fees with a default value for a missing index
\* (unwrap_or_default on the inner lookup)
GetPriorityFees_defaults(fm, market_type, market_index) ==
    IF market_type \in DOMAIN fm
    THEN IF market_index \in DOMAIN fm[market_type]
         THEN Some(fm[market_type][market_index])
         ELSE Some(Level(market_type, market_index, 0))
    ELSE None

\* get_priority_fees (lines 114-124)
GetPriorityFees(fm, market_type, market_index) ==
    IF market_type \in DOMAIN fm
    THEN IF market_index \in DOMAIN fm[market_type]
         THEN Some(fm[market_type][market_index])
         ELSE None
    ELSE None

\* the fees_map built by new (lines 30-32)
NewFeesMap == [t \in {"perp", "spot"} |-> <<>>]

\* MarketInfo with the reported index kept at its full width (no `as u16`)
MarketInfo_keepsIndex(res) ==
    [k \in 1..Len(res) |-> Market(res[k].market_type, res[k].market_index)]

\* lines 96-103: the watch list derived from a response (market_index as u16)
MarketInfo(res) ==
    [k \in 1..Len(res) |->
        Market(res[k].market_type, res[k].market_index % U16)]

\* a sequence without the repetitions of its earlier elements
RECURSIVE Dedup(_)
Dedup(s) ==
    IF s = <<>> THEN <<>>
    ELSE LET d == Dedup(SubSeq(s, 1, Len(s) - 1))
         IN  IF \E k \in 1..Len(d) : d[k] = s[Len(s)] THEN d
             ELSE Append(d, s[Len(s)])

\* FetchArgs with each market passed once (the arrays built from a set of
\* the watched markets)
FetchArgs_dedups(markets) ==
    LET ms == Dedup(markets)
    IN  [market_types   |-> [k \in 1..Len(ms) |-> ms[k].market_type],
         market_indexes |-> [k \in 1..Len(ms) |-> ms[k].market_index]]

\* lines 85-92: the two parallel arrays handed to the fetcher
FetchArgs(markets) ==
    [market_types   |-> [k \in 1..Len(markets) |-> markets[k].market_type],
     market_indexes |-> [k \in 1..Len(markets) |-> markets[k].market_index]]

\* AfterLoad with the result of line 59 discarded (no `?`)
AfterLoad_ignoresErr(ctx, res) ==
    CASE ctx = "subscribe" -> "sub_lock2"
      [] ctx = "tick"      -> "tick"
      [] OTHER             -> "idle"

\* AfterLoad with the result of line 72 propagated (`?` inside the loop)
AfterLoad_loopEnds(ctx, res) ==
    CASE ctx = "subscribe" -> IF res = "Ok" THEN "sub_lock2" ELSE "idle"
      [] ctx = "tick"      -> IF res = "Ok" THEN "tick" ELSE "ended"
      [] OTHER             -> "idle"

\* where a process continues when its load returns res: the `?` of line 59
\* inside subscribe, the discarded result of line 72 inside the loop, the
\* caller of a manual load
AfterLoad(ctx, res) ==
    CASE ctx = "subscribe" -> IF res = "Ok" THEN "sub_lock2" ELSE "idle"
      [] ctx = "tick"      -> "tick"
      [] OTHER             -> "idle"

\* the public method process p is inside
Ctx(p) == IF p \in Tasks THEN "tick" ELSE op[p]

\* the fields of the object
Fields == [frequency_ms  |-> frequency_ms,
           interval_id   |-> interval_id,
           drift_markets |-> drift_markets,
           fees_map      |-> fees_map]

\* the next task a spawn creates
Unspawned == {i \in 1..MaxSubscribes : pc[TaskNames[i]] = "none"}
NextTask == TaskNames[CHOOSE i \in Unspawned : \A j \in Unspawned : i <= j]

(***************************************************************************)
(* Initial states: the object as `new` builds it (lines 26-41), every      *)
(* caller idle, no task spawned.                                           *)
(***************************************************************************)
NoCall == [afterOk |-> FALSE, afterErr |-> FALSE]

\* a completed call: the method, the method it ran inside (for load), its
\* result, the response it handled and, for get_priority_fees, the key read
\* and the value returned
Done(method, ctx, res, resp, read) ==
    [op |-> method, ctx |-> ctx, res |-> res, resp |-> resp, read |-> read]

\* the default of config.frequency_ms (line 14, defined in types.rs)
DEFAULT_PRIORITY_FEE_MAP_FREQUENCY_MS == 10000

\* lines 27-29: config.frequency_ms.unwrap_or(DEFAULT...)
NewFrequency(config) ==
    IF IsSome(config.frequency_ms) THEN Unwrap(config.frequency_ms)
    ELSE DEFAULT_PRIORITY_FEE_MAP_FREQUENCY_MS

\* new(config), lines 26-41
New(config) ==
    /\ frequency_ms = NewFrequency(config)
    /\ interval_id = None
    /\ drift_markets = config.drift_markets
    /\ fees_map = NewFeesMap
    /\ lock = "free"
    /\ pc = [p \in Procs |-> IF p \in Tasks THEN "none" ELSE "idle"]
    /\ op = [c \in Callers |-> "none"]
    /\ fetchReq = None
    /\ nsub = 0
    /\ last = Done("new", "none", "Ok", None, None)
    /\ prev = [frequency_ms |-> NewFrequency(config), interval_id |-> None,
               drift_markets |-> config.drift_markets, fees_map |-> NewFeesMap]
    /\ subOk = FALSE
    /\ subFailed = FALSE
    /\ seq = [c \in Callers |-> NoCall]
    /\ loadRes = [c \in Callers |-> "none"]
    /\ snap = None
    /\ initLoads = 0

\* the configurations of the life-cycle specification: the watch list is
\* absent, or holds the one market of the end-to-end scenario
Init ==
    \E markets \in {None, Some(<<Market("perp", 0)>>)} :
        New([frequency_ms |-> Some(50), drift_markets |-> markets])

(***************************************************************************)
(* load (lines 79-108).                                                    *)
(***************************************************************************)
\* load returns res to process p: the process continues at AfterLoad
LoadReturns(p, res) ==
    LET nxt == AfterLoad(Ctx(p), res)
        returns == p \in Callers /\ nxt = "idle"
        fromSub == p \in Callers /\ op[p] = "subscribe"
    IN  /\ pc' = [pc EXCEPT ![p] = nxt]
        /\ op' = IF returns THEN [op EXCEPT ![p] = "none"] ELSE op
        /\ seq' = IF returns THEN [seq EXCEPT ![p] = NoCall] ELSE seq
        /\ loadRes' = IF fromSub
                      THEN [loadRes EXCEPT ![p] = IF returns THEN "none" ELSE res]
                      ELSE loadRes
        /\ subFailed' = (subFailed \/ (fromSub /\ returns /\ res = "Err"))
        /\ subOk' = (subOk \/ (fromSub /\ returns /\ res = "Ok"))

\* LoadLock with an absent watch list read as an empty one
\* (unwrap_or_default instead of `if let Some`)
LoadLock_fetchesEmpty(p) ==
    /\ pc[p] = "load_lock"
    /\ lock = "free"
    /\ lock' = p
    /\ pc' = [pc EXCEPT ![p] = "load_fetch"]
    /\ fetchReq' = Some(FetchArgs(IF drift_markets = None THEN <<>>
                                  ELSE Unwrap(drift_markets)))
    /\ snap' = Some(Fields)
    /\ UNCHANGED <<op, seq, loadRes, subFailed, subOk, last, prev>>
    /\ UNCHANGED <<frequency_ms, interval_id, drift_markets, fees_map, nsub,
                   initLoads>>

\* LoadLock with the guard dropped before the fetch is awaited
LoadLock_dropsGuard(p) ==
    /\ pc[p] = "load_lock"
    /\ lock = "free"
    /\ IF drift_markets = None
       THEN /\ LoadReturns(p, "Ok")
            /\ last' = Done("load", Ctx(p), "Ok", None, None)
            /\ prev' = Fields
            /\ UNCHANGED <<fetchReq, snap>>
       ELSE /\ pc' = [pc EXCEPT ![p] = "load_fetch"]
            /\ fetchReq' = Some(FetchArgs(Unwrap(drift_markets)))
            /\ snap' = Some(Fields)
            /\ UNCHANGED <<op, seq, loadRes, subFailed, subOk, last, prev>>
    /\ UNCHANGED <<frequency_ms, interval_id, drift_markets, fees_map, nsub,
                   initLoads, lock>>

\* line 80 up to the await of line 94: take the lock; with no watch list
\* return Ok at once (lines 81, 107), otherwise issue the fetch and keep the
\* guard across the await
LoadLock(p) ==
    /\ pc[p] = "load_lock"
    /\ lock = "free"
    /\ IF drift_markets = None
       THEN /\ LoadReturns(p, "Ok")
            /\ last' = Done("load", Ctx(p), "Ok", None, None)
            /\ prev' = Fields
            /\ UNCHANGED <<lock, fetchReq, snap>>
       ELSE /\ lock' = p
            /\ pc' = [pc EXCEPT ![p] = "load_fetch"]
            /\ fetchReq' = Some(FetchArgs(Unwrap(drift_markets)))
            /\ snap' = Some(Fields)
            /\ UNCHANGED <<op, seq, loadRes, subFailed, subOk, last, prev>>
    /\ UNCHANGED <<frequency_ms, interval_id, drift_markets, fees_map, nsub,
                   initLoads>>

\* FetchOk with the reported markets appended to the stored watch list
\* (extend instead of replace)
FetchOk_appends(p, fees) ==
    /\ pc[p] = "load_fetch"
    /\ lock = p
    /\ drift_markets' = Some(Unwrap(drift_markets) \o MarketInfo(fees))
    /\ lock' = "free"
    /\ fetchReq' = None
    /\ snap' = None
    /\ last' = Done("load", Ctx(p), "Ok", Some(fees), None)
    /\ prev' = Unwrap(snap)
    /\ LoadReturns(p, "Ok")
    /\ UNCHANGED <<frequency_ms, interval_id, fees_map, nsub, initLoads>>

\* the fetch returns Ok(fees): lines 96-104 replace the watch list, line 107
\* returns Ok and drops the guard
FetchOk(p, fees) ==
    /\ pc[p] = "load_fetch"
    /\ lock = p
    /\ drift_markets' = Some(MarketInfo(fees))
    /\ lock' = "free"
    /\ fetchReq' = None
    /\ snap' = None
    /\ last' = Done("load", Ctx(p), "Ok", Some(fees), None)
    /\ prev' = Unwrap(snap)
    /\ LoadReturns(p, "Ok")
    /\ UNCHANGED <<frequency_ms, interval_id, fees_map, nsub, initLoads>>

\* FetchErr with the watch list lost on the error path
FetchErr_dropsMarkets(p) ==
    /\ pc[p] = "load_fetch"
    /\ lock = p
    /\ lock' = "free"
    /\ fetchReq' = None
    /\ snap' = None
    /\ drift_markets' = None
    /\ last' = Done("load", Ctx(p), "Err", None, None)
    /\ prev' = Unwrap(snap)
    /\ LoadReturns(p, "Err")
    /\ UNCHANGED <<frequency_ms, interval_id, fees_map, nsub, initLoads>>

\* the fetch returns Err: the `?` of line 94 returns it and drops the guard
FetchErr(p) ==
    /\ pc[p] = "load_fetch"
    /\ lock = p
    /\ lock' = "free"
    /\ fetchReq' = None
    /\ snap' = None
    /\ last' = Done("load", Ctx(p), "Err", None, None)
    /\ prev' = Unwrap(snap)
    /\ LoadReturns(p, "Err")
    /\ UNCHANGED <<frequency_ms, interval_id, drift_markets, fees_map, nsub,
                   initLoads>>

\* a caller calls load directly (a manual refresh)
CallLoad(c) ==
    /\ pc[c] = "idle"
    /\ pc' = [pc EXCEPT ![c] = "load_lock"]
    /\ op' = [op EXCEPT ![c] = "load"]
    /\ UNCHANGED <<frequency_ms, interval_id, drift_markets, fees_map, lock,
                   fetchReq, nsub, last, prev, subOk, subFailed, seq,
                   loadRes, snap, initLoads>>

(***************************************************************************)
(* subscribe (lines 51-77) and the task it spawns (lines 68-74).           *)
(***************************************************************************)
\* a caller calls subscribe and waits for the lock of line 52
CallSubscribe(c) ==
    /\ pc[c] = "idle"
    /\ nsub < MaxSubscribes
    /\ nsub' = nsub + 1
    /\ pc' = [pc EXCEPT ![c] = "sub_lock1"]
    /\ op' = [op EXCEPT ![c] = "subscribe"]
    /\ seq' = [seq EXCEPT ![c] = [afterOk |-> subOk, afterErr |-> subFailed]]
    /\ UNCHANGED <<frequency_ms, interval_id, drift_markets, fees_map, lock,
                   fetchReq, last, prev, subOk, subFailed, loadRes, snap,
                   initLoads>>

\* SubscribeCheck that goes on to line 61 without the load of line 59
SubscribeCheck_skipsLoad(c) ==
    /\ pc[c] = "sub_lock1"
    /\ lock = "free"
    /\ IF IsSome(interval_id)
       THEN /\ pc' = [pc EXCEPT ![c] = "idle"]
            /\ op' = [op EXCEPT ![c] = "none"]
            /\ seq' = [seq EXCEPT ![c] = NoCall]
            /\ subOk' = TRUE
       ELSE /\ pc' = [pc EXCEPT ![c] = "sub_lock2"]
            /\ UNCHANGED <<op, seq, subOk>>
    /\ UNCHANGED <<frequency_ms, interval_id, drift_markets, fees_map, lock,
                   fetchReq, nsub, last, prev, subFailed, loadRes, snap,
                   initLoads>>

\* SubscribeCheck that keeps the first guard across the call of load
\* (without the drop(this) of line 58)
SubscribeCheck_keepsGuard(c) ==
    /\ pc[c] = "sub_lock1"
    /\ lock = "free"
    /\ IF IsSome(interval_id)
       THEN /\ pc' = [pc EXCEPT ![c] = "idle"]
            /\ op' = [op EXCEPT ![c] = "none"]
            /\ seq' = [seq EXCEPT ![c] = NoCall]
            /\ subOk' = TRUE
            /\ UNCHANGED <<initLoads, lock>>
       ELSE /\ pc' = [pc EXCEPT ![c] = "load_lock"]
            /\ lock' = c
            /\ initLoads' = initLoads + 1
            /\ UNCHANGED <<op, seq, subOk>>
    /\ UNCHANGED <<frequency_ms, interval_id, drift_markets, fees_map,
                   fetchReq, nsub, last, prev, subFailed, loadRes, snap>>

\* lines 52-59: with the lock, return Ok if interval_id is set; otherwise drop
\* the guard and call load
SubscribeCheck(c) ==
    /\ pc[c] = "sub_lock1"
    /\ lock = "free"
    /\ IF IsSome(interval_id)
       THEN /\ pc' = [pc EXCEPT ![c] = "idle"]
            /\ op' = [op EXCEPT ![c] = "none"]
            /\ seq' = [seq EXCEPT ![c] = NoCall]
            /\ subOk' = TRUE
            /\ UNCHANGED initLoads
       ELSE /\ pc' = [pc EXCEPT ![c] = "load_lock"]
            /\ initLoads' = initLoads + 1
            /\ UNCHANGED <<op, seq, subOk>>
    /\ UNCHANGED <<frequency_ms, interval_id, drift_markets, fees_map, lock,
                   fetchReq, nsub, last, prev, subFailed, loadRes, snap>>

\* lines 61-76: with the lock again, store the interval, spawn the task,
\* return Ok (the guard is dropped at the return)
SubscribeSpawn(c) ==
    /\ pc[c] = "sub_lock2"
    /\ lock = "free"
    /\ interval_id' = Some([period |-> frequency_ms])
    /\ pc' = [pc EXCEPT ![c] = "idle", ![NextTask] = "take"]
    /\ op' = [op EXCEPT ![c] = "none"]
    /\ seq' = [seq EXCEPT ![c] = NoCall]
    /\ loadRes' = [loadRes EXCEPT ![c] = "none"]
    /\ subOk' = TRUE
    /\ UNCHANGED <<frequency_ms, drift_markets, fees_map, lock, fetchReq, nsub,
                   last, prev, subFailed, snap, initLoads>>

\* line 69: the task takes the stored interval; unwrap panics on None and the
\* task ends (the temporary guard is dropped either way)
TaskTake(t) ==
    /\ pc[t] = "take"
    /\ lock = "free"
    /\ IF IsSome(interval_id)
       THEN /\ interval_id' = None
            /\ pc' = [pc EXCEPT ![t] = "tick"]
       ELSE /\ pc' = [pc EXCEPT ![t] = "panicked"]
            /\ UNCHANGED interval_id
    /\ UNCHANGED <<frequency_ms, drift_markets, fees_map, lock, op, fetchReq,
                   nsub, last, prev, subOk, subFailed, seq, loadRes, snap,
                   initLoads>>

\* lines 71-72: the interval ticks and the loop calls load
TaskTick(t) ==
    /\ pc[t] = "tick"
    /\ pc' = [pc EXCEPT ![t] = "load_lock"]
    /\ UNCHANGED <<frequency_ms, interval_id, drift_markets, fees_map, lock, op,
                   fetchReq, nsub, last, prev, subOk, subFailed, seq,
                   loadRes, snap, initLoads>>

(***************************************************************************)
(* The synchronous methods, called through the lock by an idle caller.     *)
(***************************************************************************)
\* update_fees_map (lines 43-49)
update_fees_map(c, res) ==
    /\ pc[c] = "idle"
    /\ lock = "free"
    /\ fees_map' = UpdateFeesMap(fees_map, res)
    /\ last' = Done("update_fees_map", "none", "Ok", Some(res), None)
    /\ prev' = Fields
    /\ UNCHANGED <<frequency_ms, interval_id, drift_markets, lock, pc, op,
                   fetchReq, nsub, subOk, subFailed, seq, loadRes, snap,
                   initLoads>>

\* get_priority_fees (lines 114-124)
get_priority_fees(c, market_type, market_index) ==
    /\ pc[c] = "idle"
    /\ lock = "free"
    /\ last' = Done("get_priority_fees", "none", "Ok", None,
                     Some([market_type |-> market_type, market_index |-> market_index,
                           fees |-> GetPriorityFees(fees_map, market_type, market_index)]))
    /\ prev' = Fields
    /\ UNCHANGED <<frequency_ms, interval_id, drift_markets, fees_map, lock, pc,
                   op, fetchReq, nsub, subOk, subFailed, seq, loadRes, snap,
                   initLoads>>

(***************************************************************************)
(* The life-cycle specification.                                           *)
(***************************************************************************)
\* the keys read in the life-cycle specification
Queries == {<<"perp", 0>>, <<"other", 0>>}

Subscribe == \E c \in Callers : CallSubscribe(c)
Check == \E c \in Callers : SubscribeCheck(c)
Spawn == \E c \in Callers : SubscribeSpawn(c)
Take == \E t \in Tasks : TaskTake(t)
Tick == \E t \in Tasks : TaskTick(t)
ManualLoad == \E c \in Callers : CallLoad(c)
Lock == \E p \in Procs : LoadLock(p)
FetchSucceeds == \E p \in Procs : \E fees \in FetchResponses : FetchOk(p, fees)
FetchFails == \E p \in Procs : FetchErr(p)
Update == \E c \in Callers : \E res \in FetchResponses : update_fees_map(c, res)
Get == \E c \in Callers : \E q \in Queries : get_priority_fees(c, q[1], q[2])

Next ==
    \/ Subscribe \/ Check \/ Spawn \/ Take \/ Tick
    \/ ManualLoad \/ Lock \/ FetchSucceeds \/ FetchFails
    \/ Update \/ Get

Spec == Init /\ [][Next]_vars

(***************************************************************************)
(* The life-cycle specification under the scheduling the runtime gives:    *)
(* a spawned task that can run does run, the tokio Mutex is fair (FIFO),   *)
(* so a task waiting for it gets it, and every fetch returns.              *)
(***************************************************************************)
FetchReturns(p) == FetchErr(p) \/ \E fees \in FetchResponses : FetchOk(p, fees)

Fairness ==
    /\ \A t \in Tasks : SF_vars(TaskTake(t))
    /\ \A t \in Tasks : WF_vars(TaskTick(t))
    /\ \A t \in Tasks : SF_vars(LoadLock(t))
    /\ \A p \in Procs : WF_vars(FetchReturns(p))

\* the life cycle with one response and one key: progress does not depend on
\* the data, and update_fees_map only delays the others for one step
LiveFetchSucceeds == \E p \in Procs : FetchOk(p, <<Level("perp", 0, 100)>>)
LiveGet == \E c \in Callers : get_priority_fees(c, "perp", 0)

LiveNext ==
    \/ Subscribe \/ Check \/ Spawn \/ Take \/ Tick
    \/ ManualLoad \/ Lock \/ LiveFetchSucceeds \/ FetchFails \/ LiveGet

LiveSpec == Init /\ [][LiveNext]_vars /\ Fairness

(***************************************************************************)
(* The life cycle with every process scheduled fairly: a caller inside     *)
(* subscribe or load, like a spawned task, takes its next step, whether    *)
(* that step needs the lock (FIFO, so a waiter gets it) or is the return   *)
(* of its fetch.  Whether a caller issues a call at all is left open.  The *)
(* fetcher fails or answers with a market other than the configured one.   *)
(***************************************************************************)
FairResponses == { <<Level("spot", 1, 150)>> }
FairFetchSucceeds == \E p \in Procs : \E fees \in FairResponses : FetchOk(p, fees)

FairNext ==
    \/ Subscribe \/ Check \/ Spawn \/ Take \/ Tick
    \/ ManualLoad \/ Lock \/ FairFetchSucceeds \/ FetchFails \/ LiveGet

Runs(p) ==
    \/ LoadLock(p)
    \/ FetchErr(p)
    \/ \E fees \in FairResponses : FetchOk(p, fees)
    \/ (p \in Tasks /\ (TaskTake(p) \/ TaskTick(p)))
    \/ (p \in Callers /\ (SubscribeCheck(p) \/ SubscribeSpawn(p)))

FairSpec == Init /\ [][FairNext]_vars /\ \A p \in Procs : SF_vars(Runs(p))

(***************************************************************************)
(* The cache specification: update_fees_map and get_priority_fees on an    *)
(* object built from any configuration, with every response of up to       *)
(* MaxLen entries over Levels.                                             *)
(***************************************************************************)
Configs ==
    [frequency_ms  : {None, Some(50)},
     drift_markets : {None, Some(<<>>), Some(<<Market("perp", 0)>>)}]

CacheInit == \E config \in Configs : New(config)

CacheUpdate == \E res \in AllResponses : update_fees_map("c1", res)
CacheGet ==
    \E t \in MarketTypes : \E i \in MarketIndexes : get_priority_fees("c1", t, i)

CacheNext == CacheUpdate \/ CacheGet

CacheSpec == CacheInit /\ [][CacheNext]_vars

(***************************************************************************)
(* The load specification: manual load calls, by callers that may overlap, *)
(* on an object built from any configuration, with every response of up    *)
(* to MaxLen entries over LoadLevels (two of them have market indexes      *)
(* that agree modulo 2^16).                                                *)
(***************************************************************************)
LoadLevels ==
    { Level("perp", 0, 100), Level("spot", 1, 150), Level("spot", 65537, 100) }
LoadResponses == SeqsUpTo(LoadLevels, MaxLen)

LoadInit == \E config \in Configs : New(config)

LoadCall == \E c \in Callers : CallLoad(c)
LoadAcquire == \E c \in Callers : LoadLock(c)
LoadFetchOk == \E c \in Callers : \E fees \in LoadResponses : FetchOk(c, fees)
LoadFetchErr == \E c \in Callers : FetchErr(c)
LoadSeed == \E c \in Callers : update_fees_map(c, <<Level("perp", 0, 100)>>)

LoadNext == LoadCall \/ LoadAcquire \/ LoadFetchOk \/ LoadFetchErr \/ LoadSeed

LoadSpec == LoadInit /\ [][LoadNext]_vars

(***************************************************************************)
(* The claims.                                                             *)
(***************************************************************************)
KnownTypes == {"perp", "spot"}
InLoad(p) == pc[p] \in {"load_lock", "load_fetch"}
InLoop(t) == pc[t] \in {"tick", "load_lock", "load_fetch"}
Spawned == {t \in Tasks : pc[t] # "none"}

\* C1: a subscribe call issued after an earlier subscribe call has returned
\* Ok is a no-op: it performs no load of its own and starts no second
\* polling task, whether or not the first task has already started.
C1_SecondSubscribeIsNoOp ==
    \A c \in Callers : seq[c].afterOk => ~InLoad(c) /\ pc[c] # "sub_lock2"

\* C2: after a load that fetched a response successfully, every entry of the
\* response with category perp or spot is what get_priority_fees returns for
\* its (category, index).
C2_LoadFillsCache ==
    (last.op = "load" /\ last.res = "Ok" /\ IsSome(last.resp)) =>
        LET r == Unwrap(last.resp)
        IN  \A k \in 1..Len(r) :
                r[k].market_type \in KnownTypes =>
                    \E j \in k..Len(r) :
                        /\ r[j].market_type = r[k].market_type
                        /\ r[j].market_index = r[k].market_index
                        /\ GetPriorityFees(fees_map, r[k].market_type,
                                           r[k].market_index) = Some(r[j])

\* C3: while the fetch of a background tick is in flight, the lock is free, so
\* a get_priority_fees or update_fees_map caller can take it.
C3_LockFreeDuringTickFetch ==
    \A t \in Tasks : pc[t] = "load_fetch" => lock = "free"

\* C4: when the fetch of a load fails, the load returns Err and the cache, the
\* watch list, the frequency and interval_id are what they were when that load
\* took the lock.
C4_FailedLoadChangesNothing ==
    [][\A p \in Procs :
          (pc[p] = "load_fetch" /\ pc'[p] # "load_fetch" /\ last'.res = "Err")
             => /\ Fields' = Unwrap(snap)
                /\ lock' = "free"]_vars

\* a failed tick load is the last completed call, the cache is not empty and
\* nothing differs from the fields the load found
C4_Witness ==
    /\ last.op = "load" /\ last.res = "Err" /\ last.ctx = "tick"
    /\ fees_map # NewFeesMap
    /\ IsSome(drift_markets)
    /\ Fields = prev

\* C5: when the load inside a subscribe call fails, that call returns the
\* failure at once: it does not touch interval_id and starts no task; a
\* subscribe call that finds interval_id unset (a later one included) performs
\* a load of its own, and a call whose load returned Ok stores the interval and
\* starts a task.
C5_FailedSubscribeStaysIdle ==
    [][\A c \in Callers :
          /\ (op[c] = "subscribe" /\ pc[c] = "load_fetch"
                /\ pc'[c] # "load_fetch" /\ last'.res = "Err")
                => /\ pc'[c] = "idle" /\ op'[c] = "none"
                   /\ subFailed'
                   /\ interval_id' = interval_id
                   /\ \A t \in Tasks : pc'[t] = pc[t]
          /\ (pc[c] = "sub_lock1" /\ pc'[c] # "sub_lock1" /\ interval_id = None)
                => pc'[c] = "load_lock" /\ initLoads' = initLoads + 1
          /\ (pc[c] = "sub_lock2" /\ pc'[c] # "sub_lock2")
                => /\ loadRes[c] = "Ok"
                   /\ IsSome(interval_id')
                   /\ \E t \in Tasks : pc[t] = "none" /\ pc'[t] = "take"]_vars

\* a subscribe call issued after a failed one has loaded successfully and is
\* about to start the task
C5_Witness ==
    \E c \in Callers :
        seq[c].afterErr /\ ~seq[c].afterOk /\ pc[c] = "sub_lock2" /\ Spawned = {}

\* C6: once a subscribe call has returned Ok a polling loop is running; a task
\* in its loop never leaves it, whatever its loads return, and calls load
\* again and again.
C6_LoopNeverStops ==
    /\ [](subOk => <>(\E t \in Tasks : InLoop(t)))
    /\ \A t \in Tasks : [](InLoop(t) => <>(pc[t] = "load_lock"))
    /\ \A t \in Tasks : [](InLoop(t) => <>(pc[t] = "tick"))
    /\ [][\A t \in Tasks : InLoop(t) => InLoop(t)']_vars

\* a tick load has failed and its task is calling load again
C6_Witness ==
    /\ last.op = "load" /\ last.ctx = "tick" /\ last.res = "Err"
    /\ subOk
    /\ Cardinality(Spawned) = 1
    /\ \E t \in Tasks : pc[t] = "load_lock"

\* C7: a subscribe call that found interval_id unset reaches line 61 (where it
\* stores the interval, starts the task and returns Ok) only after its load
\* has returned Ok; so every task started, and every Ok returned, comes after
\* a finished initial load.
C7_LoadBeforeLoop ==
    /\ \A c \in Callers : pc[c] = "sub_lock2" => loadRes[c] = "Ok"
    /\ Cardinality(Spawned)
         + Cardinality({c \in Callers : op[c] = "subscribe" /\ InLoad(c)})
         + Cardinality({c \in Callers : pc[c] = "sub_lock2"}) <= initLoads
    /\ subOk => Spawned # {}

\* a task started by subscribe is in its first tick's load, after a load that
\* fetched a response
C7_Witness ==
    /\ subOk
    /\ initLoads = 1
    /\ last.op = "load" /\ last.ctx = "subscribe" /\ IsSome(last.resp)
    /\ \E t \in Tasks : pc[t] = "load_lock"

\* C8: the keys of the outer map of the cache are exactly perp and spot in
\* every reachable state.
C8_OuterKeysFixed == DOMAIN fees_map = KnownTypes

\* a response with an entry of an unknown category has been applied while a
\* polling task runs
C8_Witness ==
    /\ last.op = "update_fees_map"
    /\ \E k \in 1..Len(Unwrap(last.resp)) :
          Unwrap(last.resp)[k].market_type \notin KnownTypes
    /\ \E t \in Tasks : InLoop(t)
    /\ fees_map # NewFeesMap

\* the entries of a response whose category is known, in order
KnownOnly(res) == SelectSeq(res, LAMBDA fee : fee.market_type \in KnownTypes)

\* C9: after update_fees_map(r), get_priority_fees returns not-found for every
\* index of every category other than perp and spot, and the cache is what
\* the entries of r with a known category alone produce from the cache before.
C9_UnknownCategoryIgnored ==
    last.op = "update_fees_map" =>
        /\ \A t \in MarketTypes \ KnownTypes : \A i \in MarketIndexes :
              GetPriorityFees(fees_map, t, i) = None
        /\ fees_map = UpdateFeesMap(prev.fees_map, KnownOnly(Unwrap(last.resp)))

\* a response with an unknown category ahead of a known one has been applied
C9_Witness ==
    /\ last.op = "update_fees_map"
    /\ Len(Unwrap(last.resp)) = 2
    /\ Unwrap(last.resp)[1].market_type \notin KnownTypes
    /\ Unwrap(last.resp)[2].market_type \in KnownTypes
    /\ fees_map # prev.fees_map

\* C10: applying to the cache the response update_fees_map has just applied
\* leaves the cache as it is.
C10_UpdateIdempotent ==
    last.op = "update_fees_map" =>
        UpdateFeesMap(fees_map, Unwrap(last.resp)) = fees_map

\* a response with the same key twice, with different levels, has been
\* applied to a cache that held that key
C10_Witness ==
    /\ last.op = "update_fees_map"
    /\ LET r == Unwrap(last.resp)
       IN  /\ Len(r) = 2
           /\ r[1].market_type = r[2].market_type
           /\ r[1].market_index = r[2].market_index
           /\ r[1].level # r[2].level
           /\ IsSome(GetPriorityFees(prev.fees_map, r[1].market_type,
                                     r[1].market_index))
           /\ fees_map # prev.fees_map

\* a step of get_priority_fees: it is the call `last` records after the step
GetStep == last'.op = "get_priority_fees" /\ (last' # last \/ prev' # prev)

\* C11: on an object as new built it, from any configuration, while no
\* update_fees_map and no load has run, get_priority_fees returns not-found
\* for every category and index, however many reads came before.
C11_FreshCacheEmpty ==
    /\ [](last.op = "new" =>
            \A t \in MarketTypes : \A i \in MarketIndexes :
                GetPriorityFees(fees_map, t, i) = None)
    /\ [][(GetStep /\ fees_map = NewFeesMap) =>
            /\ Unwrap(last'.read).fees = None
            /\ fees_map' = NewFeesMap]_vars

\* a known category has been read on an object nothing was loaded into, built
\* with the default frequency and a watch list
C11_Witness ==
    /\ last.op = "get_priority_fees"
    /\ Unwrap(last.read).market_type = "perp"
    /\ Unwrap(last.read).fees = None
    /\ fees_map = NewFeesMap
    /\ frequency_ms = DEFAULT_PRIORITY_FEE_MAP_FREQUENCY_MS
    /\ IsSome(drift_markets)

\* C12: a load that finds the watch list absent returns Ok in the step that
\* takes the lock: no fetch is issued, the guard is dropped, and the cache,
\* the watch list, the frequency and interval_id stay as they are.
C12_NoWatchListNoFetch ==
    [][\A p \in Procs :
          (pc[p] = "load_lock" /\ pc'[p] # "load_lock" /\ drift_markets = None)
             => /\ Fields' = Fields
                /\ fetchReq' = None
                /\ lock' = "free"
                /\ last' = Done("load", Ctx(p), "Ok", None, None)
                /\ pc'[p] = CASE p \in Tasks          -> "tick"
                              [] op[p] = "subscribe" -> "sub_lock2"
                              [] OTHER               -> "idle"]_vars

\* a tick load has returned Ok without a fetch on an object with no watch
\* list and a cache that is not empty
C12_Witness ==
    /\ last = Done("load", "tick", "Ok", None, None)
    /\ drift_markets = None
    /\ fees_map # NewFeesMap
    /\ Fields = prev

\* the last completed call is a load that fetched a response
LoadedOk == last.op = "load" /\ last.res = "Ok" /\ IsSome(last.resp)

\* the (category, index) pairs a response reports, in response order
Reported(res) ==
    [k \in 1..Len(res) |-> Market(res[k].market_type, res[k].market_index)]

\* C13 as stated: after a load that fetched a response, the stored watch list
\* is exactly the sequence of (category, index) pairs the response reports,
\* in response order.
C13_WatchListIsReported ==
    LoadedOk => drift_markets = Some(Reported(Unwrap(last.resp)))

\* C13 as amended: after a load that fetched a response, the stored watch
\* list has one market per entry of the response, in response order, with the
\* entry's category and the entry's index modulo 2^16; nothing of the previous
\* watch list is kept.
C13_WatchListReplaced ==
    LoadedOk =>
        LET r == Unwrap(last.resp)
        IN  /\ IsSome(drift_markets)
            /\ Len(Unwrap(drift_markets)) = Len(r)
            /\ \A k \in 1..Len(r) :
                  /\ Unwrap(drift_markets)[k].market_type = r[k].market_type
                  /\ Unwrap(drift_markets)[k].market_index
                        = r[k].market_index % U16

\* a load has replaced a watch list of one perp market by the two spot
\* markets of its response, one of them reported with an index above 2^16
C13_Witness ==
    /\ LoadedOk
    /\ prev.drift_markets = Some(<<Market("perp", 0)>>)
    /\ Len(Unwrap(last.resp)) = 2
    /\ \A k \in 1..2 : Unwrap(last.resp)[k].market_type = "spot"
    /\ \E k \in 1..2 : Unwrap(last.resp)[k].market_index >= U16
    /\ \A k \in 1..2 : Unwrap(drift_markets)[k].market_type = "spot"

Fetching == {p \in Procs : pc[p] = "load_fetch"}

\* C14: overlapping load calls are serialized by the lock: at most one is
\* between issuing its fetch and committing, and it holds the lock; its fetch
\* carries the watch list as the last commit left it and no field changes
\* while it waits; the watch list changes only when the holder commits its
\* response; and every load call returns.
C14_LoadsSerialized ==
    /\ [](Cardinality(Fetching) <= 1)
    /\ [](\A p \in Fetching :
             /\ lock = p
             /\ fetchReq = Some(FetchArgs(Unwrap(drift_markets)))
             /\ snap = Some(Fields))
    /\ [][drift_markets' # drift_markets =>
             \E p \in Fetching :
                 /\ lock = p /\ lock' = "free"
                 /\ pc'[p] # "load_fetch"
                 /\ last'.op = "load" /\ last'.res = "Ok"
                 /\ drift_markets' = Some(MarketInfo(Unwrap(last'.resp)))]_vars
    /\ \A c \in Callers : [](op[c] = "load" => <>(op[c] = "none"))

\* a manual load waits for the lock while a task's tick load, holding it,
\* has a fetch in flight for the market the load before it committed
C14_Witness ==
    /\ \E t \in Tasks, c \in Callers :
          /\ pc[t] = "load_fetch" /\ lock = t
          /\ pc[c] = "load_lock" /\ op[c] = "load"
    /\ last.op = "load" /\ last.res = "Ok" /\ IsSome(last.resp)
    /\ drift_markets = Some(<<Market("spot", 1)>>)
    /\ fetchReq = Some(FetchArgs(MarketInfo(Unwrap(last.resp))))

\* the subscribe calls in progress that were issued before any subscribe call
\* had returned Ok: calls racing on an object that is not subscribed
Racing == {c \in Callers : op[c] = "subscribe" /\ ~seq[c].afterOk}

\* C15: among concurrent subscribe calls on an object that is not subscribed,
\* at most one goes past the already-running check of line 54 to the initial
\* load and the spawn, and none is about to spawn a polling task when a
\* polling task has already been started.
C15_OneInitialLoadOneTask ==
    /\ Cardinality({c \in Racing : InLoad(c) \/ pc[c] = "sub_lock2"}) <= 1
    /\ \A c \in Racing : pc[c] = "sub_lock2" => Spawned = {}

\* the positions of a response that carry the key (t, i)
Positions(res, t, i) ==
    {k \in 1..Len(res) : res[k].market_type = t /\ res[k].market_index = i}

\* C16: after update_fees_map(r), a key of a known category that appears in
\* r reads as the last entry of r with that key, every other key reads as it
\* did before the call, and the watch list, the frequency and interval_id are
\* as before the call; a get_priority_fees call changes no field, no lock
\* and no call in progress.
C16_UpdateLastWinsRestKept ==
    /\ [](last.op = "update_fees_map" =>
            LET r == Unwrap(last.resp)
            IN  /\ \A t \in MarketTypes : \A i \in MarketIndexes :
                      LET at == Positions(r, t, i)
                      IN  IF t \in KnownTypes /\ at # {}
                          THEN GetPriorityFees(fees_map, t, i)
                                  = Some(r[CHOOSE k \in at : \A j \in at : j <= k])
                          ELSE GetPriorityFees(fees_map, t, i)
                                  = GetPriorityFees(prev.fees_map, t, i)
                /\ drift_markets = prev.drift_markets
                /\ frequency_ms = prev.frequency_ms
                /\ interval_id = prev.interval_id)
    /\ [][GetStep =>
            /\ Fields' = Fields
            /\ UNCHANGED <<lock, pc, op, fetchReq>>]_vars

\* a response with the same key twice, at different levels, has been applied
\* to a cache that held a key of the other known category, on an object with
\* a watch list; the other key reads as before
C16_Witness ==
    /\ last.op = "update_fees_map"
    /\ IsSome(drift_markets)
    /\ LET r == Unwrap(last.resp)
       IN  /\ Len(r) = 2
           /\ r[1].market_type = "perp" /\ r[2].market_type = "perp"
           /\ r[1].market_index = r[2].market_index
           /\ r[1].level # r[2].level
           /\ GetPriorityFees(fees_map, "perp", r[1].market_index) = Some(r[2])
    /\ \E i \in MarketIndexes :
          /\ IsSome(GetPriorityFees(prev.fees_map, "spot", i))
          /\ GetPriorityFees(fees_map, "spot", i)
                = GetPriorityFees(prev.fees_map, "spot", i)

\* C17: a load that finds a watch list issues a fetch, also when the list is
\* empty; the categories array and the indices array of a fetch in flight
\* have the length of the watch list, and position k of each is the category
\* and the index of the k-th watched market.
C17_FetchArraysParallel ==
    /\ [](\A p \in Fetching :
             /\ IsSome(drift_markets) /\ IsSome(fetchReq)
             /\ LET ms == Unwrap(drift_markets)
                    args == Unwrap(fetchReq)
                IN  /\ Len(args.market_types) = Len(ms)
                    /\ Len(args.market_indexes) = Len(ms)
                    /\ \A k \in 1..Len(ms) :
                          /\ args.market_types[k] = ms[k].market_type
                          /\ args.market_indexes[k] = ms[k].market_index)
    /\ [][\A p \in Procs :
             (pc[p] = "load_lock" /\ pc'[p] # "load_lock" /\ IsSome(drift_markets))
                => p \in Fetching']_vars

\* a fetch with two zero-length arrays is in flight for a watch list that is
\* present and empty; the load before it fetched for the same market watched
\* twice and committed an empty response
C17_Witness ==
    /\ Fetching # {}
    /\ drift_markets = Some(<<>>)
    /\ fetchReq = Some([market_types |-> <<>>, market_indexes |-> <<>>])
    /\ LoadedOk /\ Unwrap(last.resp) = <<>>
    /\ prev.drift_markets = Some(<<Market("spot", 1), Market("spot", 1)>>)

\* C18: no polling task ends in the panic of line 69: a task that takes the
\* lock to take the stored interval finds one.
C18_TakeNeverPanics == \A t \in Tasks : pc[t] # "panicked"

\* the points where a process asks for the lock
AtLock(p) == pc[p] \in {"sub_lock1", "sub_lock2", "load_lock", "take"}

\* C19: the lock is held only by a process waiting for its fetch, never by
\* one that is asking for the lock; and with processes scheduled fairly and
\* a fetcher that returns, every subscribe call and every manual load
\* returns, every tick load of a task returns to the tick, and the lock is
\* free again and again, so a get_priority_fees call gets its turn.
C19_NoDeadlock ==
    /\ [](\A p \in Procs : lock = p => (pc[p] = "load_fetch" /\ ~AtLock(p)))
    /\ \A c \in Callers : [](op[c] # "none" => <>(op[c] = "none"))
    /\ \A t \in Tasks : [](InLoad(t) => <>(pc[t] = "tick"))
    /\ []<>(lock = "free")

\* while a task of the background loop holds the lock for its fetch, one
\* caller waits for the lock inside subscribe and the other inside load
C19_Witness ==
    \E t \in Tasks : \E c, d \in Callers :
        /\ pc[t] = "load_fetch" /\ lock = t
        /\ op[c] = "subscribe" /\ pc[c] \in {"sub_lock1", "sub_lock2"}
        /\ op[d] = "load" /\ pc[d] = "load_lock"

\* C20: after a load that fetched a response, the index of the k-th watched
\* market is the k-th reported index modulo 2^16: it is below 2^16, it is the
\* reported index exactly when that index is below 2^16, and two entries of
\* one category whose indices differ by a multiple of 2^16 give the same
\* market; the fetch of the next load carries the watch list as stored,
\* repeated markets included.
C20_IndexModulo65536 ==
    /\ LoadedOk =>
          LET r == Unwrap(last.resp)
              ms == Unwrap(drift_markets)
          IN  /\ Len(ms) = Len(r)
              /\ \A k \in 1..Len(r) :
                    /\ ms[k].market_index = r[k].market_index % U16
                    /\ ms[k].market_index \in 0..(U16 - 1)
                    /\ (ms[k].market_index = r[k].market_index)
                          <=> (r[k].market_index < U16)
              /\ \A j, k \in 1..Len(r) :
                    (/\ r[j].market_type = r[k].market_type
                     /\ (r[j].market_index - r[k].market_index) % U16 = 0)
                       => ms[j] = ms[k]
    /\ (LoadedOk /\ Fetching # {}) =>
          LET ms == Unwrap(drift_markets)
              args == Unwrap(fetchReq)
          IN  /\ Len(args.market_indexes) = Len(Unwrap(last.resp))
              /\ \A k \in 1..Len(ms) :
                    /\ args.market_types[k] = ms[k].market_type
                    /\ args.market_indexes[k]
                          = Unwrap(last.resp)[k].market_index % U16

\* a response reported the spot markets 1 and 65537; the watch list holds the
\* spot market 1 twice and the next load's fetch is in flight for both
C20_Witness ==
    /\ LoadedOk
    /\ Len(Unwrap(last.resp)) = 2
    /\ {Unwrap(last.resp)[k].market_index : k \in 1..2} = {1, U16 + 1}
    /\ drift_markets = Some(<<Market("spot", 1), Market("spot", 1)>>)
    /\ Fetching # {}
    /\ Unwrap(fetchReq).market_indexes = <<1, 1>>

====
